---- MODULE Spec2Model ----
(***************************************************************************)
(* Amazon price tracker: the PriceTracker class of core/price_tracker.py   *)
(* over the tables of database/models.py, with the page fetch and the      *)
(* HTML extraction of get_price as the environment's answer to each fetch. *)
(* The methods are modelled with the parameters they have in               *)
(* price_tracker.py (none of them takes a user id) on a constructed        *)
(* tracker; each action is one call, committed as the method commits it.   *)
(*                                                                         *)
(* Further parts, each with its own specification over the same tables:    *)
(*   SpecStore  PriceHistoryManager of core/price_history.py and the       *)
(*              delete_user endpoint with the cascades of models.py;       *)
(*   SpecDb     the tracker and the history manager on one database;       *)
(*   SpecLog    the same on a database that already holds history rows;    *)
(*   SpecNotif  update_notifications and get_notifications;                *)
(*   SpecPage   the title check, the price strategies and the numeric      *)
(*              normalization of get_price on a parsed page;               *)
(*   SpecUrl    canonicalize_amazon_url of core/url_utils.py and the       *)
(*              resolver _find_product_by_url;                             *)
(*   SpecApi    the endpoints of api/app.py that take a URL or a product   *)
(*              id, with their validation and their calls of the tracker;  *)
(*   SpecRun    the loop of run_tracker.main.                              *)
(***************************************************************************)
EXTENDS Integers, Sequences, FiniteSets, TLC

VARIABLES
    users,          \* table users: the ids of its rows
    products,       \* table products: id -> row
    price_history,  \* table price_history, in insertion order
    settings,       \* table notification_settings: id -> row
    sent,           \* the notifications attempted so far
    clock,          \* datetime.utcnow(), one tick per tracker call
    call,           \* the tracker call made last, with the answers of its fetches
    result          \* what that call returned (or raised)

vars == <<users, products, price_history, settings, sent, clock, call, result>>

\* Number of tracker calls in one run.
MaxClock == 2

----------------------------------------------------------------------------
(* URLs.  A URL is its parsed form (urlparse): scheme, host (netloc), the  *)
(* path as the sequence of its "/"-separated segments, the query, and      *)
(* whether the path starts with "/" (a relative reference such as          *)
(* "dp/B08XYZ1234" does not).                                              *)

Url(s, h, p, q) ==
    [scheme |-> s, host |-> h, path |-> p, query |-> q, rooted |-> p # <<>>]

\* A reference without scheme and host whose path does not start with "/".
RelUrl(p, q) ==
    [scheme |-> "", host |-> "", path |-> p, query |-> q, rooted |-> FALSE]

\* The product-id a path segment starts with: its first ten characters when
\* they are all in [A-Z0-9] (matched ignoring case), upper-cased; "" if not.
SegAsin(seg) ==
    CASE seg = "B08XYZ1234" -> "B08XYZ1234"
      [] seg = "b08xyz1234" -> "B08XYZ1234"
      [] seg = "B0AAAAAAAA" -> "B0AAAAAAAA"
      [] OTHER -> ""

\* str.lower() of a segment (re.IGNORECASE on the literals of a pattern).
Lower(seg) ==
    CASE seg = "DP" -> "dp"
      [] seg = "B08XYZ1234" -> "b08xyz1234"
      [] seg = "B0AAAAAAAA" -> "b0aaaaaaaa"
      [] seg = "Test-Product" -> "test-product"
      [] OTHER -> seg

\* ASIN_REGEXES, in order: the literal segments that precede the product-id.
\* "*" stands for [^/]+ (one non-empty segment).
ASIN_REGEXES ==
    << <<"dp">>, <<"gp", "product">>, <<"gp", "aw", "d">>, <<"product">>,
       <<"*", "dp">> >>

\* A text cut at its "/": the pieces in order; whole says that the piece is
\* all there is between two "/" (it is not where the query is glued to the
\* path); rooted says that the text starts with "/".
Piece(seg, whole) == [seg |-> seg, whole |-> whole]
Pieces(segs) == [k \in 1..Len(segs) |-> Piece(segs[k], TRUE)]

\* rx matches the text at piece i: a "/", the literals, then a product-id.
RxMatchesAt(rx, pieces, rooted, i) ==
    /\ i > 1 \/ rooted
    /\ i + Len(rx) <= Len(pieces)
    /\ \A k \in 1..Len(rx) :
          IF rx[k] = "*" THEN pieces[i + k - 1].seg # ""
          ELSE /\ pieces[i + k - 1].whole
               /\ Lower(pieces[i + k - 1].seg) = rx[k]
    /\ SegAsin(pieces[i + Len(rx)].seg) # ""

\* rx.search(text): the product-id of the leftmost match, "" when none.
RxSearch(rx, pieces, rooted) ==
    LET hits == {i \in 1..Len(pieces) : RxMatchesAt(rx, pieces, rooted, i)}
    IN  IF hits = {} THEN ""
        ELSE LET i == CHOOSE j \in hits : \A k \in hits : j <= k
             IN  SegAsin(pieces[i + Len(rx)].seg)

\* The loop over ASIN_REGEXES: the first pattern that matches wins.
RECURSIVE FirstAsin(_, _, _)
FirstAsin(rxs, pieces, rooted) ==
    IF rxs = <<>> THEN ""
    ELSE LET a == RxSearch(Head(rxs), pieces, rooted)
         IN  IF a # "" THEN a ELSE FirstAsin(Tail(rxs), pieces, rooted)

\* urlunparse((scheme, netloc, path, '', '', '')) read back by urlparse: with
\* a scheme that takes a netloc, a path that is not empty is written after
\* "//netloc" with a leading "/".
urlunparse(scheme, host, path) == Url(scheme, host, path, "")

canonicalize_amazon_url(url) ==
    LET asin == FirstAsin(ASIN_REGEXES, Pieces(url.path), url.rooted)
    IN  IF asin = ""
        THEN urlunparse(IF url.scheme = "" THEN "https" ELSE url.scheme,
                        url.host, url.path)
        ELSE urlunparse(IF url.scheme = "" THEN "https" ELSE url.scheme,
                        IF url.host = "" THEN "www.amazon.com" ELSE url.host,
                        <<"dp", asin>>)

\* The URLs of the tracker runs: the canonical product URL of the fixtures
\* and the same product under a slug with a lower-case id and a tracking
\* query; UShort is a short link that carries no product-id.
UCanon == Url("https", "www.amazon.in", <<"dp", "B08XYZ1234">>, "")
UDecor == Url("https", "www.amazon.in", <<"Test-Product", "dp", "b08xyz1234">>,
              "ref=sr_1_1")
UShort == Url("https", "amzn.in", <<"d", "abc123">>, "")
Urls == {UCanon, UDecor}

\* Stands where a call has no URL.
NoUrl == Url("", "", <<>>, "")

----------------------------------------------------------------------------
(* The environment's answer to one fetch: requests.get raising, or the     *)
(* extraction raising (ok = FALSE), or a title, a price and the            *)
(* post-redirect URL.  scan is the order in which the table is scanned by  *)
(* a query without ORDER BY while the call runs.                           *)

Titles == {"Test Product"}
Prices == {0, 4500, 5500}
Thresholds == {4500}
Scans == {"asc", "desc"}

\* Where a fetch of url can end: at url itself, or where it redirects to (a
\* decorated link to the canonical one).
FinalUrls(url) ==
    IF url = UDecor THEN {UDecor, UCanon} ELSE {url}

FetchFailed ==
    [ok |-> FALSE, title |-> "", price |-> 0, final |-> NoUrl, scan |-> "asc"]
Outcomes(url) ==
    {FetchFailed} \cup
    [ok : {TRUE}, title : Titles, price : Prices, final : FinalUrls(url),
     scan : Scans]

\* Python truth of a title (str or None) and of a price (float or None).
TruthyTitle(t) == t # ""
TruthyPrice(p) == p # 0

----------------------------------------------------------------------------
(* The tables.                                                             *)

\* user_id of a Product built without one (NULL).
NullUser == 0

Row(u, url, title, th, price, active, at) ==
    [user_id |-> u, url |-> url, title |-> title, threshold |-> th,
     current_price |-> price, is_active |-> active, updated_at |-> at]

\* query(Product).filter(Product.url == url).first(): no row ({}) or one
\* ({id}); with several matching rows, the first in scan order.
FirstByUrl(prods, url, scan) ==
    LET m == {i \in DOMAIN prods : prods[i].url = url}
    IN  IF m = {} THEN {}
        ELSE IF scan = "asc"
             THEN {CHOOSE i \in m : \A j \in m : i <= j}
             ELSE {CHOOSE i \in m : \A j \in m : i >= j}

\* The constraints of table products on an INSERT: user_id NOT NULL and
\* UNIQUE (user_id, url).
InsertAllowed(prods, row) ==
    /\ row.user_id # NullUser
    /\ \A i \in DOMAIN prods :
          ~(prods[i].user_id = row.user_id /\ prods[i].url = row.url)

NextId(prods) ==
    IF DOMAIN prods = {} THEN 1
    ELSE 1 + (CHOOSE i \in DOMAIN prods : \A j \in DOMAIN prods : i >= j)

HistoryRow(id, price, at) == [product_id |-> id, price |-> price, timestamp |-> at]

Db(prods, hist) == [products |-> prods, history |-> hist]

----------------------------------------------------------------------------
(* PriceTracker.get_price                                                  *)

\* The scan order is part of a call only where two rows match the lookup.
Ambiguous(prods, url) ==
    Cardinality({i \in DOMAIN prods : prods[i].url = url}) > 1
ScanMatters(prods, o, scan2) ==
    /\ o.scan = "desc" => o.ok /\ Ambiguous(prods, o.final)
    /\ scan2 = "desc" => o.ok /\ Ambiguous(prods, o.final)

NoneTuple == [ok |-> FALSE, title |-> "", price |-> 0, url |-> NoUrl]

\* The tail of get_price taking every saved price as a sign that the product
\* is tracked again: the row is made active.
SavePrice_Reactivating(db, o, now) ==
    LET found == FirstByUrl(db.products, o.final, o.scan)
    IN  IF TruthyTitle(o.title) /\ TruthyPrice(o.price) /\ found # {}
        THEN LET id == CHOOSE i \in found : TRUE
             IN  Db([db.products EXCEPT
                        ![id].title = o.title,
                        ![id].current_price = o.price,
                        ![id].is_active = TRUE,
                        ![id].updated_at = now],
                    Append(db.history, HistoryRow(id, o.price, now)))
        ELSE db

\* The tail of get_price: with a title and a price, the first row stored
\* under the final URL takes them and gets a history row, committed at once.
SavePrice(db, o, now) ==
    LET found == FirstByUrl(db.products, o.final, o.scan)
    IN  IF TruthyTitle(o.title) /\ TruthyPrice(o.price) /\ found # {}
        THEN LET id == CHOOSE i \in found : TRUE
             IN  Db([db.products EXCEPT
                        ![id].title = o.title,
                        ![id].current_price = o.price,
                        ![id].updated_at = now],
                    Append(db.history, HistoryRow(id, o.price, now)))
        ELSE db

\* get_price with a failed fetch taken as the end of tracking: the row stored
\* under url is deactivated.
get_price_deactivating(db, url, o, now) ==
    IF ~o.ok
    THEN [ret |-> NoneTuple,
          db |-> Db([i \in DOMAIN db.products |->
                        IF db.products[i].url = url
                        THEN [db.products[i] EXCEPT !.is_active = FALSE]
                        ELSE db.products[i]],
                    db.history)]
    ELSE [ret |-> [ok |-> TRUE, title |-> o.title, price |-> o.price,
                   url |-> o.final],
          db |-> SavePrice(db, o, now)]

\* o is the environment's answer to the fetch of url: an exception anywhere in
\* the fetch or the extraction gives (None, None, None).
get_price(db, url, o, now) ==
    IF ~o.ok
    THEN [ret |-> NoneTuple, db |-> db]
    ELSE [ret |-> [ok |-> TRUE, title |-> o.title, price |-> o.price,
                   url |-> o.final],
          db |-> SavePrice(db, o, now)]

----------------------------------------------------------------------------
(* Return values.                                                          *)

View(id, row) ==
    [id |-> id, url |-> row.url, title |-> row.title,
     threshold |-> row.threshold, current_price |-> row.current_price]

None == [kind |-> "None", items |-> <<>>, flag |-> FALSE]
Dict(v) == [kind |-> "dict", items |-> <<v>>, flag |-> FALSE]
List(vs) == [kind |-> "list", items |-> vs, flag |-> FALSE]
Bool(b) == [kind |-> "bool", items |-> <<>>, flag |-> b]
Raised(e) == [kind |-> e, items |-> <<>>, flag |-> FALSE]

----------------------------------------------------------------------------
(* PriceTracker.add_product                                                *)

\* The update of an existing row that leaves the active flag as it is.
UpdateExisting_KeepFlag(prods, id, title, threshold, price, now) ==
    [prods EXCEPT ![id].title = title,
                  ![id].threshold = threshold,
                  ![id].current_price = price,
                  ![id].updated_at = now]

\* The branch of add_product for a URL that has a row.
UpdateExisting(prods, id, title, threshold, price, now) ==
    [prods EXCEPT ![id].title = title,
                  ![id].threshold = threshold,
                  ![id].current_price = price,
                  ![id].is_active = TRUE,
                  ![id].updated_at = now]

\* scan2 is the scan order of add_product's own lookup.
add_product(db, url, threshold, o, scan2, now) ==
    LET g == get_price(db, url, o, now)
    IN  IF ~(TruthyTitle(g.ret.title) /\ TruthyPrice(g.ret.price))
        THEN [res |-> None, db |-> g.db]
        ELSE
        LET found == FirstByUrl(g.db.products, g.ret.url, scan2)
        IN  IF found # {}
            THEN LET id == CHOOSE i \in found : TRUE
                     prods == UpdateExisting(g.db.products, id, g.ret.title,
                                             threshold, g.ret.price, now)
                 IN  [res |-> Dict(View(id, prods[id])),
                      db |-> Db(prods,
                                Append(g.db.history,
                                       HistoryRow(id, g.ret.price, now)))]
            ELSE LET row == Row(NullUser, g.ret.url, g.ret.title, threshold,
                                g.ret.price, TRUE, now)
                     id == NextId(g.db.products)
                 IN  IF InsertAllowed(g.db.products, row)
                     THEN [res |-> Dict(View(id, row)),
                           db |-> Db(g.db.products @@ (id :> row),
                                     Append(g.db.history,
                                            HistoryRow(id, g.ret.price, now)))]
                     \* flush raises IntegrityError: rollback, return None
                     ELSE [res |-> None, db |-> g.db]

----------------------------------------------------------------------------
(* PriceTracker.remove_product                                             *)

\* A removal that deletes: the row goes, and its history rows with it.
remove_product_deleting(db, url, scan) ==
    LET found == FirstByUrl(db.products, url, scan)
    IN  IF found # {}
        THEN LET id == CHOOSE i \in found : TRUE
             IN  [res |-> Bool(TRUE),
                  db |-> Db([i \in DOMAIN db.products \ {id} |-> db.products[i]],
                            SelectSeq(db.history,
                                      LAMBDA h : h.product_id # id))]
        ELSE [res |-> Bool(FALSE), db |-> db]

\* The first row stored under url is deactivated; no row is deleted.
remove_product(db, url, scan) ==
    LET found == FirstByUrl(db.products, url, scan)
    IN  IF found # {}
        THEN LET id == CHOOSE i \in found : TRUE
             IN  [res |-> Bool(TRUE),
                  db |-> Db([db.products EXCEPT ![id].is_active = FALSE],
                            db.history)]
        ELSE [res |-> Bool(FALSE), db |-> db]

----------------------------------------------------------------------------
(* PriceTracker.check_price                                                *)

\* The dict check_price returns for a URL that is not tracked.
Preview(ret) ==
    [id |-> 0, url |-> ret.url, title |-> ret.title, threshold |-> 0,
     current_price |-> ret.price]

check_price(db, url, o, scan2, now) ==
    LET g == get_price(db, url, o, now)
    IN  IF ~(TruthyTitle(g.ret.title) /\ TruthyPrice(g.ret.price))
        THEN [res |-> None, db |-> g.db]
        ELSE
        LET found == FirstByUrl(g.db.products, g.ret.url, scan2)
        IN  IF found # {}
            THEN LET id == CHOOSE i \in found : TRUE
                     prods == [g.db.products EXCEPT
                                  ![id].title = g.ret.title,
                                  ![id].current_price = g.ret.price,
                                  ![id].updated_at = now]
                 IN  [res |-> Dict(View(id, prods[id])),
                      db |-> Db(prods, g.db.history)]
            ELSE [res |-> [kind |-> "preview", items |-> <<Preview(g.ret)>>,
                           flag |-> FALSE],
                  db |-> g.db]

----------------------------------------------------------------------------
(* PriceTracker.update_all_prices                                          *)

\* query(Product).filter(Product.is_active == True).all()
ActiveIds(prods) == {i \in DOMAIN prods : prods[i].is_active}

\* The loop body for the products order[1..], with outs[k] the answer to the
\* fetch of product order[k]; acc is updated_products.
RECURSIVE UpdateLoop(_, _, _, _, _)
UpdateLoop(db, order, outs, now, acc) ==
    IF order = <<>>
    THEN [res |-> List(acc), db |-> db]
    ELSE LET id == Head(order)
             g == get_price(db, db.products[id].url, Head(outs), now)
         IN  IF TruthyTitle(g.ret.title) /\ TruthyPrice(g.ret.price)
             THEN LET prods == [g.db.products EXCEPT
                                   ![id].title = g.ret.title,
                                   ![id].current_price = g.ret.price,
                                   ![id].updated_at = now]
                  IN  UpdateLoop(Db(prods, g.db.history), Tail(order),
                                 Tail(outs), now,
                                 Append(acc, View(id, prods[id])))
             ELSE UpdateLoop(g.db, Tail(order), Tail(outs), now, acc)

\* order is the order in which all() returned the active products.
update_all_prices(db, order, outs, now) ==
    UpdateLoop(db, order, outs, now, <<>>)

----------------------------------------------------------------------------
(* core/notifications.py and PriceTracker.get_notifications                *)

\* The functions core/notifications.py defines.
NotificationsNames == {"send_mail"}

\* from core.notifications import send_mail, send_whatsapp
ImportResolves == {"send_mail", "send_whatsapp"} \subseteq NotificationsNames

\* send_mail: never raises, returns whether the mail went out.
send_mail(to, title, url, delivered) ==
    [channel |-> "email", to |-> to, title |-> title, url |-> url,
     delivered |-> delivered]

\* send_whatsapp, as the notification collaborator of the specification:
\* best-effort, returns whether the message went out.
send_whatsapp(to, title, url, delivered) ==
    [channel |-> "whatsapp", to |-> to, title |-> title, url |-> url,
     delivered |-> delivered]

\* None of Python and NULL of a column.
Null == "None"

\* x or ""
OrEmpty(x) == IF x = Null THEN "" ELSE x

\* query(NotificationSettings).first(): the id of the row, if there is one.
FirstSettings(sett, scan) ==
    LET m == DOMAIN sett
    IN  IF m = {} THEN {}
        ELSE IF scan = "asc" THEN {CHOOSE i \in m : \A j \in m : i <= j}
        ELSE {CHOOSE i \in m : \A j \in m : i >= j}

\* The first settings row, an absent field read as ""; without a row, both
\* fields are "".
get_notifications(sett, scan) ==
    LET found == FirstSettings(sett, scan)
    IN  IF found = {} THEN [email |-> "", phone_number |-> ""]
        ELSE LET row == sett[CHOOSE i \in found : TRUE]
             IN  [email |-> OrEmpty(row.email),
                  phone_number |-> OrEmpty(row.phone_number)]

\* The constraints of table notification_settings on an INSERT: user_id NOT
\* NULL and UNIQUE.
SettingsInsertAllowed(sett, row) ==
    /\ row.user_id # NullUser
    /\ \A i \in DOMAIN sett : sett[i].user_id # row.user_id

\* update_notifications writing both fields as they are passed.
update_notifications_overwriting(sett, email, phone_number, scan, now) ==
    LET found == FirstSettings(sett, scan)
    IN  IF found = {} THEN sett
        ELSE LET id == CHOOSE i \in found : TRUE
             IN  [sett EXCEPT ![id].email = email,
                              ![id].phone_number = phone_number,
                              ![id].updated_at = now]

\* update_notifications: the first settings row takes the fields that are
\* not None; without a row, one is built from the arguments alone (it has no
\* user_id), and when the commit refuses it the session is rolled back.
update_notifications(sett, email, phone_number, scan, now) ==
    LET found == FirstSettings(sett, scan)
    IN  IF found = {}
        THEN LET row == [user_id |-> NullUser, email |-> OrEmpty(email),
                         phone_number |-> OrEmpty(phone_number),
                         updated_at |-> now]
             IN  IF SettingsInsertAllowed(sett, row)
                 THEN sett @@ (1 :> row)
                 ELSE sett
        ELSE LET id == CHOOSE i \in found : TRUE
             IN  [sett EXCEPT
                    ![id].email = IF email # Null THEN email ELSE @,
                    ![id].phone_number =
                        IF phone_number # Null THEN phone_number ELSE @,
                    ![id].updated_at = now]

----------------------------------------------------------------------------
(* PriceTracker.check_and_alert                                            *)

Alert(url, title, price, threshold) ==
    [url |-> url, title |-> title, price |-> price, threshold |-> threshold]

\* The loop body for the products order[1..]; mail and wa say whether a send
\* attempted in this cycle is delivered; acc is alerted_products, out the
\* notifications attempted.
RECURSIVE AlertLoop(_, _, _, _, _, _, _, _, _)
AlertLoop(db, n, order, outs, mail, wa, now, acc, out) ==
    IF order = <<>>
    THEN [res |-> List(acc), db |-> db, out |-> out]
    ELSE LET id == Head(order)
             url == db.products[id].url
             threshold == db.products[id].threshold
             g == get_price(db, url, Head(outs), now)
         IN  IF TruthyTitle(g.ret.title) /\ TruthyPrice(g.ret.price)
                /\ g.ret.price <= threshold
             THEN LET m == IF n.email # ""
                           THEN <<send_mail(n.email, g.ret.title, url, mail)>>
                           ELSE <<>>
                      w == IF n.phone_number # ""
                           THEN <<send_whatsapp(n.phone_number, g.ret.title,
                                                url, wa)>>
                           ELSE <<>>
                      prods == [g.db.products EXCEPT ![id].is_active = FALSE]
                  IN  AlertLoop(Db(prods, g.db.history), n, Tail(order),
                                Tail(outs), mail, wa, now,
                                Append(acc, Alert(url, g.ret.title,
                                                  g.ret.price, threshold)),
                                out \o m \o w)
             ELSE AlertLoop(g.db, n, Tail(order), Tail(outs), mail, wa, now,
                            acc, out)

check_and_alert(db, sett, order, outs, scan, mail, wa, now) ==
    IF ~ImportResolves
    THEN [res |-> Raised("ImportError"), db |-> db, out |-> <<>>]
    ELSE AlertLoop(db, get_notifications(sett, scan), order, outs, mail, wa,
                   now, <<>>, <<>>)

----------------------------------------------------------------------------
(* core/price_history.py: PriceHistoryManager                              *)

\* The pieces of a query after its first "/" (a query can quote a path).
QueryPieces(q) ==
    CASE q = "k=/dp/B08XYZ1234" -> <<"dp", "B08XYZ1234">>
      [] OTHER -> <<>>

\* The whole URL string cut at its "/": "scheme:", "", the host, the path
\* segments, and the query glued to the piece before it.
UrlPieces(url) ==
    LET head == IF url.scheme # ""
                THEN <<Piece(url.scheme, FALSE), Piece("", TRUE),
                       Piece(url.host, TRUE)>>
                ELSE <<>>
        body == head \o Pieces(url.path)
        glued == IF url.query = "" THEN body
                 ELSE IF body = <<>> THEN <<Piece("", FALSE)>>
                 ELSE [body EXCEPT ![Len(body)].whole = FALSE]
    IN  glued \o Pieces(QueryPieces(url.query))

\* Whether the URL string starts with "/".
UrlRooted(url) == url.scheme = "" /\ url.rooted

\* The patterns searched in the whole URL string, not in its path alone.
_extract_asin(url) == FirstAsin(ASIN_REGEXES, UrlPieces(url), UrlRooted(url))

\* text contains the id, in any case: it starts with it, or quotes it.
Mentions(text, asin) ==
    \/ asin # "" /\ SegAsin(text) = asin
    \/ text \in {"k=/dp/B08XYZ1234", "tag=B08XYZ1234"} /\ asin = "B08XYZ1234"

\* Product.url.ilike("%asin%"): the id occurs somewhere in the stored URL.
UrlMentions(url, asin) ==
    \/ \E k \in 1..Len(url.path) : Mentions(url.path[k], asin)
    \/ Mentions(url.query, asin)

\* .first() of the rows m in scan order: no row ({}) or one ({id}).
FirstOf(m, scan) ==
    IF m = {} THEN {}
    ELSE IF scan = "asc"
         THEN {CHOOSE i \in m : \A j \in m : i <= j}
         ELSE {CHOOSE i \in m : \A j \in m : i >= j}

\* The resolver with the id-substring lookup made among the rows of all users.
_find_product_by_url_asin_any_owner(prods, user_id, url, scan) ==
    LET own == {i \in DOMAIN prods : prods[i].user_id = user_id}
        exact == FirstOf({i \in own : prods[i].url = url}, scan)
        canon == canonicalize_amazon_url(url)
        bycanon == IF canon = url THEN {}
                   ELSE FirstOf({i \in own : prods[i].url = canon}, scan)
        asin == IF _extract_asin(url) # "" THEN _extract_asin(url)
                ELSE _extract_asin(canon)
        byasin == IF asin = "" THEN {}
                  ELSE FirstOf({i \in DOMAIN prods :
                                   UrlMentions(prods[i].url, asin)}, scan)
    IN  IF exact # {} THEN exact
        ELSE IF bycanon # {} THEN bycanon
        ELSE byasin

\* The resolver with the id-substring lookup tried before the exact ones.
_find_product_by_url_asin_first(prods, user_id, url, scan) ==
    LET own == {i \in DOMAIN prods : prods[i].user_id = user_id}
        canon == canonicalize_amazon_url(url)
        asin == IF _extract_asin(url) # "" THEN _extract_asin(url)
                ELSE _extract_asin(canon)
        byasin == IF asin = "" THEN {}
                  ELSE FirstOf({i \in own : UrlMentions(prods[i].url, asin)},
                               scan)
        exact == FirstOf({i \in own : prods[i].url = url}, scan)
        bycanon == IF canon = url THEN {}
                   ELSE FirstOf({i \in own : prods[i].url = canon}, scan)
    IN  IF byasin # {} THEN byasin
        ELSE IF exact # {} THEN exact
        ELSE bycanon

\* The user's product for a URL: exact stored URL, then the canonical URL
\* when it differs, then the product-id anywhere in a stored URL.
_find_product_by_url(prods, user_id, url, scan) ==
    LET own == {i \in DOMAIN prods : prods[i].user_id = user_id}
        exact == FirstOf({i \in own : prods[i].url = url}, scan)
        canon == canonicalize_amazon_url(url)
        bycanon == IF canon = url THEN {}
                   ELSE FirstOf({i \in own : prods[i].url = canon}, scan)
        asin == IF _extract_asin(url) # "" THEN _extract_asin(url)
                ELSE _extract_asin(canon)
        byasin == IF asin = "" THEN {}
                  ELSE FirstOf({i \in own : UrlMentions(prods[i].url, asin)},
                               scan)
    IN  IF exact # {} THEN exact
        ELSE IF bycanon # {} THEN bycanon
        ELSE byasin

\* add_price_entry keeping one row per product: the new entry takes the place
\* of the product's earlier ones.
add_price_entry_latest_only(db, product_id, price, now) ==
    IF product_id \in DOMAIN db.products
    THEN Db(db.products,
            Append(SelectSeq(db.history, LAMBDA h : h.product_id # product_id),
                   HistoryRow(product_id, price, now)))
    ELSE db

\* _get_user_product looking the product up by its id alone.
_get_user_product_any_owner(prods, user_id, product_id) ==
    {i \in DOMAIN prods : i = product_id}

\* product_id is a foreign key: an entry for no product is refused, and the
\* error is swallowed after the rollback.
add_price_entry(db, product_id, price, now) ==
    IF product_id \in DOMAIN db.products
    THEN Db(db.products, Append(db.history, HistoryRow(product_id, price, now)))
    ELSE db

Reverse(seq) == [k \in 1..Len(seq) |-> seq[Len(seq) + 1 - k]]

\* The entries of the resolved product, newest first; None when the URL
\* resolves to no product of the user.
get_price_history(db, user_id, url, scan) ==
    LET found == _find_product_by_url(db.products, user_id, url, scan)
    IN  IF found = {} THEN None
        ELSE List(Reverse(SelectSeq(db.history,
                     LAMBDA h : h.product_id = CHOOSE i \in found : TRUE)))

remove_product_history(db, user_id, url, scan) ==
    LET found == _find_product_by_url(db.products, user_id, url, scan)
    IN  IF found = {} THEN [res |-> Bool(FALSE), db |-> db]
        ELSE [res |-> Bool(TRUE),
              db |-> Db(db.products,
                        SelectSeq(db.history,
                           LAMBDA h : h.product_id # CHOOSE i \in found : TRUE))]

\* query(Product).filter(Product.id == product_id, Product.user_id == user_id)
_get_user_product(prods, user_id, product_id) ==
    {i \in DOMAIN prods : i = product_id /\ prods[i].user_id = user_id}

remove_product_history_by_product_id(db, user_id, product_id) ==
    IF _get_user_product(db.products, user_id, product_id) = {}
    THEN [res |-> Bool(FALSE), db |-> db]
    ELSE [res |-> Bool(TRUE),
          db |-> Db(db.products,
                    SelectSeq(db.history,
                              LAMBDA h : h.product_id # product_id))]

----------------------------------------------------------------------------
(* api/app.py: delete_user.  db.delete(user) cascades along the            *)
(* relationships of models.py: the user's products, their price history,   *)
(* the user's notification settings.                                       *)

Status(code) == [kind |-> code, items |-> <<>>, flag |-> FALSE]

\* A deletion that stops at the products: their history rows stay behind.
delete_user_keeping_history(us, db, sett, user_id) ==
    IF user_id \notin us
    THEN [res |-> Status("404"), users |-> us, db |-> db, settings |-> sett]
    ELSE LET gone == {i \in DOMAIN db.products :
                         db.products[i].user_id = user_id}
         IN  [res |-> Status("200"),
              users |-> us \ {user_id},
              db |-> Db([i \in DOMAIN db.products \ gone |-> db.products[i]],
                        db.history),
              settings |-> [i \in {j \in DOMAIN sett :
                                      sett[j].user_id # user_id} |-> sett[i]]]

delete_user(us, db, sett, user_id) ==
    IF user_id \notin us
    THEN [res |-> Status("404"), users |-> us, db |-> db, settings |-> sett]
    ELSE LET gone == {i \in DOMAIN db.products :
                         db.products[i].user_id = user_id}
         IN  [res |-> Status("200"),
              users |-> us \ {user_id},
              db |-> Db([i \in DOMAIN db.products \ gone |-> db.products[i]],
                        SelectSeq(db.history,
                                  LAMBDA h : h.product_id \notin gone)),
              settings |-> [i \in {j \in DOMAIN sett :
                                      sett[j].user_id # user_id} |-> sett[i]]]

----------------------------------------------------------------------------
(* The rows the tables hold when the tracker starts: the product of the    *)
(* test fixtures for two users (P1, P2) and for a user whose row is stored *)
(* under a decorated URL (P3).  init_db can only seed a settings row       *)
(* without a user_id, which the table refuses, so a settings row is there  *)
(* already.  Users 1 and 2 exist.                                          *)

P1 == Row(1, UCanon, "Old Title", 5000, 5500, TRUE, 0)
P2 == Row(2, UCanon, "Old Title", 4500, 5500, TRUE, 0)
P3 == Row(1, UDecor, "Old Title", 5000, 5500, TRUE, 0)

Populations ==
    { (1 :> P3), (1 :> P1) @@ (2 :> P2), (1 :> P1) @@ (2 :> P3) }

SettingsRows ==
    { (1 :> [user_id |-> 1, email |-> "user@example.com",
             phone_number |-> "+911234567890", updated_at |-> 0]) }

NoCall ==
    [op |-> "init", url |-> NoUrl, threshold |-> 0, fetch |-> <<>>,
     order |-> <<>>, scan |-> "asc"]

Init ==
    /\ users = {1, 2}
    /\ products \in Populations
    /\ price_history = <<>>
    /\ settings \in SettingsRows
    /\ sent = <<>>
    /\ clock = 0
    /\ call = NoCall
    /\ result = None

\* The orders in which all() can return the rows ids.
Orders(ids) ==
    {f \in [1..Cardinality(ids) -> ids] : \A a, b \in DOMAIN f : a # b => f[a] # f[b]}

\* A call that raises before its queries leaves both orders unread.
Ascending(order) == \A a, b \in DOMAIN order : a < b => order[a] < order[b]

AllOutcomes == UNION {Outcomes(u) : u \in Urls}

\* One answer per product of order, each to the fetch of that product's URL;
\* scan is the scan order during the call, read where two rows match.
FetchesFor(prods, order, scan) ==
    {outs \in [1..Len(order) -> AllOutcomes] :
        /\ \A k \in 1..Len(order) :
              /\ outs[k] \in Outcomes(prods[order[k]].url)
              /\ outs[k].scan =
                    IF outs[k].ok /\ Ambiguous(prods, outs[k].final)
                    THEN scan ELSE "asc"
        /\ scan = "desc" => \E k \in 1..Len(order) : outs[k].scan = "desc"}

AddProduct ==
    /\ clock < MaxClock
    /\ \E url \in Urls, threshold \in Thresholds, scan2 \in Scans :
       \E o \in Outcomes(url) :
          /\ ScanMatters(products, o, scan2)
          /\ LET r == add_product(Db(products, price_history), url, threshold,
                                  o, scan2, clock + 1)
             IN  /\ products' = r.db.products
                 /\ price_history' = r.db.history
                 /\ result' = r.res
                 /\ call' = [op |-> "add_product", url |-> url,
                             threshold |-> threshold, fetch |-> <<o>>,
                             order |-> <<>>, scan |-> scan2]
    /\ clock' = clock + 1
    /\ UNCHANGED <<users, settings, sent>>

RemoveProduct ==
    /\ clock < MaxClock
    /\ \E url \in Urls, scan \in Scans :
          /\ scan = "desc" => Ambiguous(products, url)
          /\ LET r == remove_product(Db(products, price_history), url, scan)
             IN  /\ products' = r.db.products
                 /\ price_history' = r.db.history
                 /\ result' = r.res
                 /\ call' = [op |-> "remove_product", url |-> url,
                             threshold |-> 0, fetch |-> <<>>, order |-> <<>>,
                             scan |-> scan]
    /\ clock' = clock + 1
    /\ UNCHANGED <<users, settings, sent>>

CheckPrice ==
    /\ clock < MaxClock
    /\ \E url \in Urls, scan2 \in Scans :
       \E o \in Outcomes(url) :
          /\ ScanMatters(products, o, scan2)
          /\ LET r == check_price(Db(products, price_history), url, o, scan2,
                                  clock + 1)
             IN  /\ products' = r.db.products
                 /\ price_history' = r.db.history
                 /\ result' = r.res
                 /\ call' = [op |-> "check_price", url |-> url,
                             threshold |-> 0, fetch |-> <<o>>, order |-> <<>>,
                             scan |-> scan2]
    /\ clock' = clock + 1
    /\ UNCHANGED <<users, settings, sent>>

UpdateAllPrices ==
    /\ clock < MaxClock
    /\ \E order \in Orders(ActiveIds(products)), scan \in Scans :
       \E outs \in FetchesFor(products, order, scan) :
          LET r == update_all_prices(Db(products, price_history), order, outs,
                                     clock + 1)
          IN  /\ products' = r.db.products
              /\ price_history' = r.db.history
              /\ result' = r.res
              /\ call' = [op |-> "update_all_prices", url |-> NoUrl,
                          threshold |-> 0, fetch |-> outs, order |-> order,
                          scan |-> scan]
    /\ clock' = clock + 1
    /\ UNCHANGED <<users, settings, sent>>

\* The active products and the answers their pages give during the cycle are
\* drawn whether or not the call gets as far as fetching them.
CheckAndAlert ==
    /\ clock < MaxClock
    /\ \E order \in Orders(ActiveIds(products)), scan \in Scans :
       \E outs \in FetchesFor(products, order, scan) :
       \E mail, wa \in BOOLEAN :
          /\ ~ImportResolves => ~mail /\ ~wa /\ scan = "asc" /\ Ascending(order)
          /\ LET r == check_and_alert(Db(products, price_history), settings,
                                      order, outs, "asc", mail, wa, clock + 1)
             IN  /\ products' = r.db.products
                 /\ price_history' = r.db.history
                 /\ sent' = sent \o r.out
                 /\ result' = r.res
                 /\ call' = [op |-> "check_and_alert", url |-> NoUrl,
                             threshold |-> 0, fetch |-> outs,
                             order |-> order, scan |-> scan]
    /\ clock' = clock + 1
    /\ UNCHANGED <<users, settings>>

Next ==
    \/ AddProduct
    \/ RemoveProduct
    \/ CheckPrice
    \/ UpdateAllPrices
    \/ CheckAndAlert

Spec == Init /\ [][Next]_vars

----------------------------------------------------------------------------
(* The history manager and the user deletion on the tracker's database.    *)

UserIds == {1, 2}

\* No user.
NoUser == 3

\* The URLs the history operations are asked about.
HistoryUrls == Urls \cup {UShort}

\* History rows that add_price_entry has written before the run starts.
HistorySeeds ==
    { <<>>, <<HistoryRow(1, 5500, 0), HistoryRow(2, 5500, 0)>> }

\* raised says that a query of the call raised (the session lost its
\* connection, say) and the call's except branch ran.
StoreCall(op, user, id, url, price, scan) ==
    [op |-> op, user |-> user, product_id |-> id, url |-> url,
     price |-> price, threshold |-> 0, fetch |-> <<>>, order |-> <<>>,
     scan |-> scan, raised |-> FALSE]

\* Both users have their notification settings.
StoreSettings ==
    { (1 :> [user_id |-> 1, email |-> "user@example.com",
             phone_number |-> "+911234567890", updated_at |-> 0])
      @@ (2 :> [user_id |-> 2, email |-> "other@example.com",
                phone_number |-> "", updated_at |-> 0]) }

InitStore ==
    /\ users = UserIds
    /\ products \in Populations
    /\ price_history \in
          {h \in HistorySeeds :
              \A n \in 1..Len(h) : h[n].product_id \in DOMAIN products}
    /\ settings \in StoreSettings
    /\ sent = <<>>
    /\ clock = 0
    /\ call = NoCall
    /\ result = None

\* The scan order is part of a lookup only where it changes what is found.
ScanDecides(prods, user, url, scan) ==
    scan = "desc" =>
        _find_product_by_url(prods, user, url, "desc")
            # _find_product_by_url(prods, user, url, "asc")

AddPriceEntry ==
    /\ clock < MaxClock
    /\ \E id \in 1..2, price \in Prices \ {0} :
          LET db == add_price_entry(Db(products, price_history), id, price,
                                    clock + 1)
          IN  /\ products' = db.products
              /\ price_history' = db.history
              /\ result' = None
              /\ call' = StoreCall("add_price_entry", 0, id, NoUrl, price,
                                   "asc")
    /\ clock' = clock + 1
    /\ UNCHANGED <<users, settings, sent>>

GetPriceHistory ==
    /\ clock < MaxClock
    /\ \E user \in UserIds, url \in HistoryUrls, scan \in Scans :
          /\ ScanDecides(products, user, url, scan)
          /\ result' = get_price_history(Db(products, price_history), user,
                                         url, scan)
          /\ call' = StoreCall("get_price_history", user, 0, url, 0, scan)
    /\ clock' = clock + 1
    /\ UNCHANGED <<users, products, price_history, settings, sent>>

RemoveProductHistory ==
    /\ clock < MaxClock
    /\ \E user \in UserIds, url \in HistoryUrls, scan \in Scans :
          /\ ScanDecides(products, user, url, scan)
          /\ LET r == remove_product_history(Db(products, price_history),
                                             user, url, scan)
             IN  /\ products' = r.db.products
                 /\ price_history' = r.db.history
                 /\ result' = r.res
                 /\ call' = StoreCall("remove_product_history", user, 0, url,
                                      0, scan)
    /\ clock' = clock + 1
    /\ UNCHANGED <<users, settings, sent>>

RemoveProductHistoryByProductId ==
    /\ clock < MaxClock
    /\ \E user \in UserIds, id \in 1..2 :
          LET r == remove_product_history_by_product_id(
                       Db(products, price_history), user, id)
          IN  /\ products' = r.db.products
              /\ price_history' = r.db.history
              /\ result' = r.res
              /\ call' = StoreCall("remove_product_history_by_product_id",
                                   user, id, NoUrl, 0, "asc")
    /\ clock' = clock + 1
    /\ UNCHANGED <<users, settings, sent>>

DeleteUser ==
    /\ clock < MaxClock
    /\ \E user \in UserIds \cup {NoUser} :
          LET r == delete_user(users, Db(products, price_history), settings,
                               user)
          IN  /\ users' = r.users
              /\ products' = r.db.products
              /\ price_history' = r.db.history
              /\ settings' = r.settings
              /\ result' = r.res
              /\ call' = StoreCall("delete_user", user, 0, NoUrl, 0, "asc")
    /\ clock' = clock + 1
    /\ UNCHANGED sent

NextStore ==
    \/ AddPriceEntry
    \/ GetPriceHistory
    \/ RemoveProductHistory
    \/ RemoveProductHistoryByProductId
    \/ DeleteUser

\* The history manager and the user deletion alone.
SpecStore == InitStore /\ [][NextStore]_vars

\* The tracker, the history manager and the user deletion on one database.
NextDb == Next \/ NextStore
SpecDb == Init /\ [][NextDb]_vars

\* The same operations on a database that already holds history rows of two
\* products of different users.
InitLog ==
    /\ users = UserIds
    /\ products = (1 :> P1) @@ (2 :> P3)
    /\ price_history = <<HistoryRow(1, 5500, 0), HistoryRow(2, 5500, 0)>>
    /\ settings \in StoreSettings
    /\ sent = <<>>
    /\ clock = 0
    /\ call = NoCall
    /\ result = None

SpecLog == InitLog /\ [][NextDb]_vars

----------------------------------------------------------------------------
(* The notification settings: update_notifications and get_notifications   *)
(* of the tracker, on a table with no row, with one user's row (a row with *)
(* a NULL e-mail among them) and with both users' rows.                    *)

Emails == {Null, "", "new@example.com"}
Phones == {Null, "+919876543210"}

SettingsSeeds ==
    SettingsRows \cup StoreSettings \cup
    { <<>>,
      (1 :> [user_id |-> 2, email |-> Null, phone_number |-> "+911234567890",
             updated_at |-> 0]) }

NotifCall(op, email, phone_number, scan) ==
    [op |-> op, email |-> email, phone_number |-> phone_number, scan |-> scan]

InitNotif ==
    /\ users = UserIds
    /\ products = (1 :> P1) @@ (2 :> P2)
    /\ price_history = <<>>
    /\ settings \in SettingsSeeds
    /\ sent = <<>>
    /\ clock = 0
    /\ call = NoCall
    /\ result = None

\* The scan order is part of the call only where two rows can come first.
UpdateNotifications ==
    /\ clock < MaxClock
    /\ \E email \in Emails, phone_number \in Phones, scan \in Scans :
          /\ scan = "desc" => Cardinality(DOMAIN settings) > 1
          /\ settings' = update_notifications(settings, email, phone_number,
                                              scan, clock + 1)
          /\ result' = None
          /\ call' = NotifCall("update_notifications", email, phone_number,
                               scan)
    /\ clock' = clock + 1
    /\ UNCHANGED <<users, products, price_history, sent>>

GetNotifications ==
    /\ clock < MaxClock
    /\ \E scan \in Scans :
          /\ scan = "desc" => Cardinality(DOMAIN settings) > 1
          /\ result' = Dict(get_notifications(settings, scan))
          /\ call' = NotifCall("get_notifications", Null, Null, scan)
    /\ clock' = clock + 1
    /\ UNCHANGED <<users, products, price_history, settings, sent>>

NextNotif ==
    \/ UpdateNotifications
    \/ GetNotifications

SpecNotif == InitNotif /\ [][NextNotif]_vars

----------------------------------------------------------------------------
(* The URL functions on their own: canonicalize_amazon_url and the         *)
(* resolver, asked about every URL of UrlUniverse.                         *)

\* Number of calls in one run of the URL functions.
MaxUrlCalls == 1

UrlHeads == { <<"https", "www.amazon.in">>, <<"http", "www.amazon.com">> }

UrlPaths ==
    { <<"dp", "B08XYZ1234">>,
      <<"Test-Product", "dp", "b08xyz1234">>,
      <<"gp", "product", "B08XYZ1234">>,
      <<"gp", "aw", "d", "B0AAAAAAAA">>,
      <<"product", "B0AAAAAAAA">>,
      <<"DP", "B08XYZ1234">>,
      <<"www.amazon.in", "dp", "B08XYZ1234">>,
      <<"d", "abc123">>,
      <<"s">>,
      <<>> }

UrlQueries == {"", "ref=sr_1_1", "k=/dp/B08XYZ1234"}

\* With scheme and host; with neither and a path that starts with "/"; with
\* neither and a path that does not.
UrlUniverse ==
    {Url(h[1], h[2], p, q) : h \in UrlHeads, p \in UrlPaths, q \in UrlQueries}
    \cup {Url("", "", p, q) : p \in UrlPaths, q \in UrlQueries}
    \cup {RelUrl(p, q) : p \in UrlPaths \ {<<>>}, q \in UrlQueries}

\* A row stored under a URL that only quotes the product-id.
UTagged == Url("https", "www.amazon.in", <<"s">>, "tag=B08XYZ1234")
P4 == Row(1, UTagged, "Old Title", 5000, 5500, TRUE, 0)

InitUrl ==
    /\ users = UserIds
    /\ products \in Populations \cup {(1 :> P2) @@ (2 :> P4)}
    /\ price_history = <<>>
    /\ settings \in SettingsRows
    /\ sent = <<>>
    /\ clock = 0
    /\ call = NoCall
    /\ result = None

UrlResult(url) == [kind |-> "url", items |-> <<url>>, flag |-> FALSE]

Canonicalize ==
    /\ clock < MaxUrlCalls
    /\ \E url \in UrlUniverse :
          /\ result' = UrlResult(canonicalize_amazon_url(url))
          /\ call' = StoreCall("canonicalize_amazon_url", 0, 0, url, 0, "asc")
    /\ clock' = clock + 1
    /\ UNCHANGED <<users, products, price_history, settings, sent>>

\* The resolver; when one of its queries raises, the except branch returns
\* None (whatever the URL: the failing session is drawn for the URLs of Urls).
FindProductByUrl ==
    /\ clock < MaxUrlCalls
    /\ \E user \in UserIds, url \in UrlUniverse, scan \in Scans,
          raises \in BOOLEAN :
          /\ ScanDecides(products, user, url, scan)
          /\ raises => scan = "asc" /\ url \in Urls
          /\ LET found == _find_product_by_url(products, user, url, scan)
             IN  result' = IF raises \/ found = {} THEN None
                           ELSE LET id == CHOOSE i \in found : TRUE
                                IN  Dict(View(id, products[id]))
          /\ call' = [StoreCall("_find_product_by_url", user, 0, url, 0, scan)
                         EXCEPT !.raised = raises]
    /\ clock' = clock + 1
    /\ UNCHANGED <<users, products, price_history, settings, sent>>

NextUrl ==
    \/ Canonicalize
    \/ FindProductByUrl

SpecUrl == InitUrl /\ [][NextUrl]_vars

----------------------------------------------------------------------------
(* api/app.py: the endpoints that take a product URL, and the removal of   *)
(* a product.  The module-level tracker is called with the arguments the   *)
(* endpoint passes; a call that does not fit the method's parameters       *)
(* raises TypeError, which the endpoint turns into status 500.             *)

\* The positional parameters (after self) each PriceTracker method takes:
\* the fewest and the most.
TrackerParams(name) ==
    CASE name = "get_price" -> [min |-> 1, max |-> 1]
      [] name = "add_product" -> [min |-> 2, max |-> 2]
      [] name = "remove_product" -> [min |-> 1, max |-> 1]
      [] name = "get_all_products" -> [min |-> 0, max |-> 0]
      [] name = "update_all_prices" -> [min |-> 0, max |-> 0]
      [] name = "check_price" -> [min |-> 1, max |-> 1]
      [] name = "get_notifications" -> [min |-> 0, max |-> 0]
      [] name = "check_and_alert" -> [min |-> 0, max |-> 1]

\* Calling the method with n positional arguments binds them.
Binds(name, n) == TrackerParams(name).min <= n /\ n <= TrackerParams(name).max

\* The domains is_amazon_url allows.
AllowedDomains ==
    {"amazon.com", "amazon.in", "amazon.co.uk", "amazon.de", "amazon.co.jp",
     "amazon.ca", "amazon.com.au", "amazon.fr", "amazon.it", "amazon.es",
     "amzn.in"}

\* The allowed domains the lower-cased host ends with (str.endswith).
EndingsOf(host) ==
    CASE host = "www.amazon.in" -> {"amazon.in"}
      [] host = "WWW.AMAZON.IN" -> {"amazon.in"}
      [] host = "amzn.in" -> {"amzn.in"}
      [] host = "www.amazon.com" -> {"amazon.com"}
      [] host = "notamazon.com" -> {"amazon.com"}
      [] host = "www.amazon.in.example.com" -> {}
      [] host = "invalid-site.com" -> {}
      [] OTHER -> {}

is_amazon_url(url) ==
    /\ url.host # ""
    /\ EndingsOf(url.host) \cap AllowedDomains # {}

\* validate.URL() of the request schemas: an absolute URL with a host.
SchemaAccepts(url) ==
    /\ url.scheme \in {"http", "https", "ftp", "ftps"}
    /\ url.host # ""

\* A response: the status, and the core operations the request got to call.
Response(code, invoked) == [kind |-> code, items |-> invoked, flag |-> FALSE]

\* validate_request and require_amazon_url in front of an endpoint: the
\* response they give, {} when they let the request through.
Rejected(url) ==
    IF ~SchemaAccepts(url) THEN {Response("400", <<>>)}
    ELSE IF ~is_amazon_url(url) THEN {Response("400", <<>>)}
    ELSE {}

\* POST /api/products
api_add_product(db, user_id, url, threshold, o, scan2, now) ==
    IF Rejected(url) # {}
    THEN [res |-> CHOOSE r \in Rejected(url) : TRUE, db |-> db]
    ELSE IF ~Binds("add_product", 3)
    THEN [res |-> Response("500", <<"add_product">>), db |-> db]
    ELSE LET r == add_product(db, url, threshold, o, scan2, now)
         IN  [res |-> Response(IF r.res = None THEN "400" ELSE "201",
                               <<"add_product">>),
              db |-> r.db]

\* POST /api/products/check
api_check_price(db, user_id, url, o, scan2, now) ==
    IF Rejected(url) # {}
    THEN [res |-> CHOOSE r \in Rejected(url) : TRUE, db |-> db]
    ELSE IF ~Binds("check_price", 2)
    THEN [res |-> Response("500", <<"check_price">>), db |-> db]
    ELSE LET r == check_price(db, url, o, scan2, now)
         IN  [res |-> Response(IF r.res = None THEN "400" ELSE "200",
                               <<"check_price">>),
              db |-> r.db]

\* POST /api/notify: the mail goes to the address get_notifications gives.
api_send_notification(sett, user_id, title, url, delivered) ==
    IF Rejected(url) # {}
    THEN [res |-> CHOOSE r \in Rejected(url) : TRUE, out |-> <<>>]
    ELSE IF ~Binds("get_notifications", 1)
    THEN [res |-> Response("500", <<"get_notifications">>), out |-> <<>>]
    ELSE LET n == get_notifications(sett, "asc")
         IN  IF n.email # ""
             THEN [res |-> Response("200", <<"get_notifications", "send_mail">>),
                   out |-> <<send_mail(n.email, title, url, delivered)>>]
             ELSE [res |-> Response("200", <<"get_notifications">>),
                   out |-> <<>>]

\* DELETE /api/products/<product_id>?user_id=
api_remove_product(db, user_id, product_id) ==
    IF ~Binds("remove_product", 2)
    THEN [res |-> Response("500", <<"remove_product">>), db |-> db]
    ELSE LET r == remove_product(db, product_id, "asc")
         IN  [res |-> Response(IF r.res.flag THEN "200" ELSE "404",
                               <<"remove_product">>),
              db |-> r.db]

\* Number of requests in one run.
MaxRequests == 2

\* The URLs of the requests: on Amazon hosts, on hosts that are not
\* Amazon's, and without a host.
ApiHosts ==
    {"www.amazon.in", "WWW.AMAZON.IN", "amzn.in", "notamazon.com",
     "www.amazon.in.example.com", "invalid-site.com"}
ApiUrls ==
    {Url("https", h, <<"dp", "B08XYZ1234">>, "") : h \in ApiHosts}
    \cup {RelUrl(<<"www.amazon.in", "dp", "B08XYZ1234">>, "")}

\* POST /api/products.  When the call of the tracker does not bind, no fetch
\* is made, so a single (unused) outcome stands for the page's answer.
ApiAddProduct ==
    /\ clock < MaxRequests
    /\ \E user \in UserIds, url \in ApiUrls, threshold \in Thresholds :
       \E o \in Outcomes(url) :
          /\ ~Binds("add_product", 3) => o = FetchFailed
          /\ LET r == api_add_product(Db(products, price_history), user, url,
                                      threshold, o, "asc", clock + 1)
             IN  /\ products' = r.db.products
                 /\ price_history' = r.db.history
                 /\ result' = r.res
                 /\ call' = StoreCall("POST /api/products", user, 0, url, 0,
                                      "asc")
    /\ clock' = clock + 1
    /\ UNCHANGED <<users, settings, sent>>

ApiCheckPrice ==
    /\ clock < MaxRequests
    /\ \E user \in UserIds, url \in ApiUrls :
       \E o \in Outcomes(url) :
          /\ ~Binds("check_price", 2) => o = FetchFailed
          /\ LET r == api_check_price(Db(products, price_history), user, url,
                                      o, "asc", clock + 1)
             IN  /\ products' = r.db.products
                 /\ price_history' = r.db.history
                 /\ result' = r.res
                 /\ call' = StoreCall("POST /api/products/check", user, 0,
                                      url, 0, "asc")
    /\ clock' = clock + 1
    /\ UNCHANGED <<users, settings, sent>>

ApiSendNotification ==
    /\ clock < MaxRequests
    /\ \E user \in UserIds, url \in ApiUrls, title \in Titles,
          delivered \in BOOLEAN :
          /\ ~Binds("get_notifications", 1) => ~delivered
          /\ LET r == api_send_notification(settings, user, title, url,
                                            delivered)
             IN  /\ sent' = sent \o r.out
                 /\ result' = r.res
                 /\ call' = StoreCall("POST /api/notify", user, 0, url, 0,
                                      "asc")
    /\ clock' = clock + 1
    /\ UNCHANGED <<users, products, price_history, settings>>

ApiRemoveProduct ==
    /\ clock < MaxRequests
    /\ \E user \in UserIds, id \in 1..2 :
          LET r == api_remove_product(Db(products, price_history), user, id)
          IN  /\ products' = r.db.products
              /\ price_history' = r.db.history
              /\ result' = r.res
              /\ call' = StoreCall("DELETE /api/products", user, id, NoUrl, 0,
                                   "asc")
    /\ clock' = clock + 1
    /\ UNCHANGED <<users, settings, sent>>

NextApi ==
    \/ ApiAddProduct
    \/ ApiCheckPrice
    \/ ApiSendNotification
    \/ ApiRemoveProduct

SpecApi == InitStore /\ [][NextApi]_vars

----------------------------------------------------------------------------
(* run_tracker.py: main and _run_for_user.  call.op is where main is: in   *)
(* its loop ("main"), or returned ("returned"); result says how the last   *)
(* cycle ended: "sleep" (time.sleep, then the next cycle), "exit" (the     *)
(* break after "All alerts sent"), "interrupt" (KeyboardInterrupt).        *)

\* One cycle for one user: the number of products left, 0 after any
\* exception (the except clause of _run_for_user).  order, outs, mail and wa
\* are the environment of the check_and_alert call.
_run_for_user(db, sett, user_id, order, outs, mail, wa, now) ==
    IF ~Binds("get_notifications", 1)
    THEN [ret |-> 0, db |-> db, out |-> <<>>]
    ELSE IF ~Binds("get_all_products", 1)
    THEN [ret |-> 0, db |-> db, out |-> <<>>]
    ELSE IF ActiveIds(db.products) = {}
    THEN [ret |-> 0, db |-> db, out |-> <<>>]
    ELSE IF ~Binds("check_and_alert", 1)
    THEN [ret |-> 0, db |-> db, out |-> <<>>]
    ELSE LET r == check_and_alert(db, sett, order, outs, "asc", mail, wa, now)
         IN  IF r.res.kind # "list"
             THEN [ret |-> 0, db |-> r.db, out |-> r.out]
             ELSE [ret |-> Cardinality(ActiveIds(r.db.products)),
                   db |-> r.db, out |-> r.out]

\* The users of one cycle, in the order main visits them: the one user of
\* the single-user mode, or all users by ascending id.
RECURSIVE Ascend(_)
Ascend(ids) ==
    IF ids = {} THEN <<>>
    ELSE LET m == CHOOSE i \in ids : \A j \in ids : i <= j
         IN  <<m>> \o Ascend(ids \ {m})

\* The for loop of main over the users us: total_remaining.
RECURSIVE RunUsers(_, _, _, _, _, _, _, _, _)
RunUsers(db, sett, us, order, outs, mail, wa, now, acc) ==
    IF us = <<>>
    THEN [ret |-> acc.ret, db |-> db, out |-> acc.out]
    ELSE LET r == _run_for_user(db, sett, Head(us), order, outs, mail, wa, now)
         IN  RunUsers(r.db, sett, Tail(us), order, outs, mail, wa, now,
                      [ret |-> acc.ret + r.ret, out |-> acc.out \o r.out])

RunResult(kind, remaining) ==
    [kind |-> kind, items |-> <<remaining>>, flag |-> FALSE]

MainCall(mode, user) ==
    [op |-> "main", mode |-> mode, user |-> user, url |-> NoUrl,
     threshold |-> 0, fetch |-> <<>>, order |-> <<>>, scan |-> "asc"]

\* The rows of products with any of them deactivated already.
WithFlags(prods) ==
    {[i \in DOMAIN prods |-> [prods[i] EXCEPT !.is_active = f[i]]] :
        f \in [DOMAIN prods -> BOOLEAN]}

\* main(user_id) for a user, or main() for all users, about to run its first
\* cycle on a database that holds the users' products, some deactivated.
InitRun ==
    /\ \/ /\ users = UserIds
          /\ products \in UNION {WithFlags(p) : p \in Populations}
       \/ /\ users = {}
          /\ products = <<>>
    /\ price_history = <<>>
    /\ settings \in IF users = {} THEN {<<>>} ELSE StoreSettings
    /\ sent = <<>>
    /\ clock = 0
    /\ call \in {MainCall("single", u) : u \in UserIds \cup {NoUser}}
                \cup {MainCall("multi", 0)}
    /\ result = RunResult("start", 0)

\* One pass of the while loop: the cycle for the mode's users, then the
\* break when nothing remains, or the sleep.  Without users the multi-user
\* mode sleeps and retries.
RunCycle ==
    /\ call.op = "main"
    /\ result.kind \in {"start", "sleep"}
    /\ clock < MaxClock
    /\ \E order \in Orders(ActiveIds(products)) :
       \E outs \in FetchesFor(products, order, "asc") :
       \E mail, wa \in BOOLEAN :
          /\ ~Binds("get_notifications", 1) =>
                /\ ~mail /\ ~wa /\ Ascending(order)
                /\ \A k \in 1..Len(outs) : outs[k] = FetchFailed
          /\ LET us == IF call.mode = "single" THEN <<call.user>>
                       ELSE Ascend(users)
                 r == RunUsers(Db(products, price_history), settings, us,
                               order, outs, mail, wa, clock + 1,
                               [ret |-> 0, out |-> <<>>])
             IN  /\ products' = r.db.products
                 /\ price_history' = r.db.history
                 /\ sent' = sent \o r.out
                 /\ IF call.mode = "multi" /\ users = {}
                    THEN /\ result' = RunResult("sleep", 0)
                         /\ call' = call
                    ELSE IF r.ret = 0
                    THEN /\ result' = RunResult("exit", 0)
                         /\ call' = [call EXCEPT !.op = "returned"]
                    ELSE /\ result' = RunResult("sleep", r.ret)
                         /\ call' = call
    /\ clock' = clock + 1
    /\ UNCHANGED <<users, settings>>

\* Ctrl+C while main is in its loop.
KeyboardInterrupt ==
    /\ call.op = "main"
    /\ result' = RunResult("interrupt", 0)
    /\ call' = [call EXCEPT !.op = "returned"]
    /\ UNCHANGED <<users, products, price_history, settings, sent, clock>>

NextRun ==
    \/ RunCycle
    \/ KeyboardInterrupt

SpecRun == InitRun /\ [][NextRun]_vars

----------------------------------------------------------------------------
(* get_price's extraction (price_tracker.py 54-127) on the parsed page.    *)
(* A text is the sequence of its characters.  A page is the title the      *)
(* title selectors find ("" when none does) and its span elements in       *)
(* document order, each with its class, whether it carries                 *)
(* data-a-color="price", its own text and the spans inside it.             *)

\* The characters U+20B9 (rupee), U+20AC (euro) and U+00A3 (pound).
Rupee == "INR"
Euro == "EUR"
Pound == "GBP"

Digits == <<"0", "1", "2", "3", "4", "5", "6", "7", "8", "9">>
IsDigit(c) == \E d \in 1..10 : Digits[d] = c
DigitValue(c) == (CHOOSE d \in 1..10 : Digits[d] = c) - 1

\* str.strip()
RECURSIVE strip(_)
strip(t) ==
    IF t # <<>> /\ Head(t) = " " THEN strip(Tail(t))
    ELSE IF t # <<>> /\ t[Len(t)] = " " THEN strip(SubSeq(t, 1, Len(t) - 1))
    ELSE t

\* str.replace(c, "")
replace(t, c) == SelectSeq(t, LAMBDA x : x # c)

\* The cleaning that drops the decimal point with the separators.
price_text_clean_no_point(t) ==
    strip(replace(replace(replace(replace(replace(replace(
        t, ","), "."), Rupee), "$"), Euro), Pound))

\* Line 121: commas and the four currency signs dropped, then the ends
\* stripped.
price_text_clean(t) ==
    strip(replace(replace(replace(replace(replace(
        t, ","), Rupee), "$"), Euro), Pound))

\* The last position of the run of characters of [\d,] (digits only: of \d)
\* that starts at i; i - 1 when there is none.
RECURSIVE RunEnd(_, _, _)
RunEnd(t, i, commas) ==
    IF i <= Len(t) /\ (IsDigit(t[i]) \/ (commas /\ t[i] = ","))
    THEN RunEnd(t, i + 1, commas)
    ELSE i - 1

\* re.search(r'[\d,]+\.?\d*', t).group(): the leftmost match, each part as
\* long as it can be; <<>> when there is no match.
price_match(t) ==
    LET starts == {i \in 1..Len(t) : IsDigit(t[i]) \/ t[i] = ","}
    IN  IF starts = {} THEN <<>>
        ELSE LET i == CHOOSE a \in starts : \A b \in starts : a <= b
                 j == RunEnd(t, i, TRUE)
                 k == IF j < Len(t) /\ t[j + 1] = "."
                      THEN RunEnd(t, j + 2, FALSE)
                      ELSE j
             IN  SubSeq(t, i, k)

\* The number a sequence of digits writes.
RECURSIVE Number(_)
Number(ds) ==
    IF ds = <<>> THEN 0
    ELSE 10 * Number(SubSeq(ds, 1, Len(ds) - 1)) + DigitValue(ds[Len(ds)])

\* The number n / 10^k, written with the least k.
RECURSIVE Decimal(_, _)
Decimal(n, k) ==
    IF k > 0 /\ n % 10 = 0 THEN Decimal(n \div 10, k - 1)
    ELSE [n |-> n, k |-> k]

\* float(s) of digits with at most one point: {} when it raises ValueError.
float(s) ==
    LET points == {i \in 1..Len(s) : s[i] = "."}
        p == IF points = {} THEN Len(s) + 1 ELSE CHOOSE i \in points : TRUE
        whole == SubSeq(s, 1, p - 1)
        frac == SubSeq(s, p + 1, Len(s))
    IN  IF whole \o frac = <<>> \/ Cardinality(points) > 1
           \/ \E i \in 1..Len(whole \o frac) : ~IsDigit((whole \o frac)[i])
        THEN {}
        ELSE {Decimal(Number(whole \o frac), Len(frac))}

Span(cls, color, text, kids) ==
    [cls |-> cls, color |-> color, text |-> text, kids |-> kids]

\* The spans of elems and the spans inside them, in document order.
RECURSIVE Flatten(_)
Flatten(elems) ==
    IF elems = <<>> THEN <<>>
    ELSE <<Head(elems)>> \o Flatten(Head(elems).kids) \o Flatten(Tail(elems))

\* find("span", class_=what), or find("span", {"data-a-color": "price"}) for
\* what = "price": the first such span in document order, if any.
find(elems, what) ==
    LET all == Flatten(elems)
        hits == {i \in 1..Len(all) :
                    IF what = "price" THEN all[i].color ELSE all[i].cls = what}
    IN  IF hits = {} THEN {}
        ELSE {all[CHOOSE i \in hits : \A j \in hits : i <= j]}

\* get_text(): the element's text with the text of the spans inside it.
RECURSIVE TextOf(_)
TextOf(elems) ==
    IF elems = <<>> THEN <<>>
    ELSE Head(elems).text \o TextOf(Head(elems).kids) \o TextOf(Tail(elems))
get_text(tags) == LET e == CHOOSE x \in tags : TRUE IN strip(TextOf(<<e>>))

\* Lines 84-117: the price text, {} where the code raises ValueError.
PriceText(body) ==
    LET price_tag == find(body, "a-price-whole")
    IN  IF price_tag # {} THEN {get_text(price_tag)}
        ELSE
        LET offscreen == find(body, "a-offscreen")
        IN  IF offscreen # {} THEN {get_text(offscreen)}
            ELSE
            LET price_container == find(body, "a-price")
            IN  IF price_container # {}
                THEN LET kids == (CHOOSE x \in price_container : TRUE).kids
                         inner == find(kids, "a-price-whole")
                     IN  IF inner # {} THEN {get_text(inner)}
                         ELSE LET inoff == find(kids, "a-offscreen")
                              IN  IF inoff # {} THEN {get_text(inoff)}
                                  \* raise ValueError("Price element not found")
                                  ELSE {}
                ELSE LET colored == find(body, "price")
                     IN  IF colored # {}
                         THEN LET price_whole ==
                                     find((CHOOSE x \in colored : TRUE).kids,
                                          "a-price-whole")
                              IN  IF price_whole # {}
                                  THEN {get_text(price_whole)}
                                  ELSE {get_text(colored)}
                         \* raise ValueError("Price not found on page")
                         ELSE {}

\* Lines 121-127 on a price text: the price, {} where the code raises.
ParsePrice(price_text) ==
    LET m == price_match(price_text_clean(price_text))
    IN  IF m = <<>> THEN {} ELSE float(replace(m, ","))

\* What get_price returns for a page: (title, price, final_url), or
\* (None, None, None) with the message of the exception it caught.
Extracted(title, price) ==
    [kind |-> "tuple", items |-> <<[title |-> title, price |-> price]>>,
     flag |-> FALSE]
Failed(message) == [kind |-> "None", items |-> <<message>>, flag |-> FALSE]

ExtractPrice(page) ==
    IF page.title = "" THEN Failed("Product title not found")
    ELSE LET text == PriceText(page.body)
         IN  IF text = {} THEN Failed("Price not found")
             ELSE LET price == ParsePrice(CHOOSE t \in text : TRUE)
                  IN  IF price = {} THEN Failed("Could not extract price")
                      ELSE Extracted(page.title, CHOOSE x \in price : TRUE)

\* The price texts of the pages: "₹1,234.50", "$99", "2,999", "1,234.",
\* "N/A", " 0 ", "1.234,56", "Rs. 499" and the empty text.
PriceTexts ==
    { <<Rupee, "1", ",", "2", "3", "4", ".", "5", "0">>,
      <<"$", "9", "9">>,
      <<"2", ",", "9", "9", "9">>,
      <<"1", ",", "2", "3", "4", ".">>,
      <<"N", "/", "A">>,
      <<" ", "0", " ">>,
      <<"1", ".", "2", "3", "4", ",", "5", "6">>,
      <<"R", "s", ".", " ", "4", "9", "9">>,
      <<>> }

Leaf(cls, text) == Span(cls, FALSE, text, <<>>)

\* The spans a page is made of: a whole price with each text, an offscreen
\* price ("₹499.00"), a price container (empty, around a whole price
\* "3,000", around an offscreen price "€3,000.50"), a price-color span (with
\* its own text "£ 777", around a whole price "5,500"), and a span that is
\* none of these.
PageSpans ==
    {Leaf("a-price-whole", t) : t \in PriceTexts}
    \cup
    { Leaf("a-offscreen", <<Rupee, "4", "9", "9", ".", "0", "0">>),
      Span("a-price", FALSE, <<>>, <<>>),
      Span("a-price", FALSE, <<>>,
           <<Leaf("a-price-whole", <<"3", ",", "0", "0", "0">>)>>),
      Span("a-price", FALSE, <<>>,
           <<Leaf("a-offscreen",
                  <<Euro, "3", ",", "0", "0", "0", ".", "5", "0">>)>>),
      Span("a-color-price", TRUE, <<Pound, " ", "7", "7", "7">>, <<>>),
      Span("a-color-price", TRUE, <<>>,
           <<Leaf("a-price-whole", <<"5", ",", "5", "0", "0">>)>>),
      Leaf("a-size-base", <<"N", "/", "A">>) }

\* Number of spans of a page, at its top level.
MaxSpans == 2

PageUniverse ==
    [title : {"", "Test Product"},
     body : UNION {[1..n -> PageSpans] : n \in 0..MaxSpans}]

\* A tracker on a database without products (get_price finds no row under
\* the final URL and saves nothing), and the page its fetch is answered with.
InitPage ==
    /\ users = UserIds
    /\ products = <<>>
    /\ price_history = <<>>
    /\ settings \in SettingsRows
    /\ sent = <<>>
    /\ clock = 0
    /\ \E page \in PageUniverse : call = [op |-> "requests.get", page |-> page]
    /\ result = None

\* get_price(url) on the page fetched.
GetPricePage ==
    /\ call.op = "requests.get"
    /\ products = <<>>
    /\ result' = ExtractPrice(call.page)
    /\ call' = [call EXCEPT !.op = "get_price"]
    /\ clock' = clock + 1
    /\ UNCHANGED <<users, products, price_history, settings, sent>>

NextPage == GetPricePage

SpecPage == InitPage /\ [][NextPage]_vars

----------------------------------------------------------------------------
(* What the claims read off a call.                                        *)

\* The products of a batch call: those active when it started.
Fetched == 1..Len(call.order)

\* The k-th product's page answered, with a price at or below its threshold.
Crossing(k) ==
    /\ call.fetch[k].ok
    /\ call.fetch[k].price <= products[call.order[k]].threshold

\* The crossing the code's own test sees (if title and current_price).
DetectedCrossing(k) ==
    /\ Crossing(k)
    /\ TruthyTitle(call.fetch[k].title)
    /\ TruthyPrice(call.fetch[k].price)

\* The products a cycle took from active to inactive.
Deactivated == {k \in Fetched : ~products[call.order[k]].is_active}

\* The history rows the step appended.
Appended ==
    SubSeq(price_history', Len(price_history) + 1, Len(price_history'))

\* The history rows of product id.
HistoryOf(hist, id) == SelectSeq(hist, LAMBDA h : h.product_id = id)

\* A URL is tracked: some product row is stored under it.
Tracked(prods, url) == \E i \in DOMAIN prods : prods[i].url = url

----------------------------------------------------------------------------
\* C1: after a check_and_alert cycle, a product that was active when the
\* cycle started is inactive if and only if its fetch succeeded with a price
\* at or below its threshold (equality counts); otherwise it is still active.
C1_DeactivatedIffCrossed ==
    call.op = "check_and_alert" =>
        \A k \in Fetched :
            (~products[call.order[k]].is_active) <=> Crossing(k)

\* C2: check_and_alert returns a list that holds exactly the products the
\* call took from active to inactive, one entry each, with the price that
\* triggered the alert; the list is empty when no product crossed.
C2_ReturnsDeactivated ==
    call.op = "check_and_alert" =>
        /\ result.kind = "list"
        /\ Len(result.items) = Cardinality(Deactivated)
        /\ \A k \in Deactivated :
              \E n \in 1..Len(result.items) :
                 /\ result.items[n].url = products[call.order[k]].url
                 /\ result.items[n].price = call.fetch[k].price
                 /\ result.items[n].threshold = products[call.order[k]].threshold
        /\ \A n \in 1..Len(result.items) :
              \E k \in Deactivated :
                 /\ result.items[n].url = products[call.order[k]].url
                 /\ result.items[n].price = call.fetch[k].price

\* C4: when check_and_alert detects a crossing the product is deactivated
\* whatever becomes of the notifications: nothing is raised out of the call
\* and no product with a detected crossing is left active.
C4_CrossingDeactivatesAndNeverRaises ==
    call.op = "check_and_alert" =>
        /\ result.kind = "list"
        /\ \A k \in Fetched :
              DetectedCrossing(k) => ~products[call.order[k]].is_active

\* C5: in a check_and_alert cycle a product whose fetch failed is skipped (its
\* row and its history are as before and nothing is sent for it), and the
\* batch is not aborted: the call returns its list and every other product is
\* processed, a detected crossing deactivating its product.
C5_FailedFetchSkippedBatchCompletes ==
    [][call'.op = "check_and_alert" =>
          /\ result'.kind = "list"
          /\ \A k \in 1..Len(call'.order) :
                LET id == call'.order[k]
                IN  IF ~call'.fetch[k].ok
                    THEN /\ products'[id] = products[id]
                         /\ HistoryOf(price_history', id) =
                               HistoryOf(price_history, id)
                         /\ \A n \in Len(sent) + 1..Len(sent') :
                               sent'[n].url # products[id].url
                    ELSE (/\ TruthyPrice(call'.fetch[k].price)
                          /\ call'.fetch[k].price <= products[id].threshold)
                            => ~products'[id].is_active]_vars

\* C6: update_all_prices returns exactly one entry for each active product
\* whose fetch succeeded and none for the others, and a product whose fetch
\* failed keeps its stored price, title and updated timestamp.
C6_UpdateAllReturnsFetchedOnly ==
    [][call'.op = "update_all_prices" =>
          /\ result'.kind = "list"
          /\ Len(result'.items) =
                Cardinality({k \in 1..Len(call'.order) : call'.fetch[k].ok})
          /\ \A k \in 1..Len(call'.order) :
                LET id == call'.order[k]
                    listed == \E n \in 1..Len(result'.items) :
                                 result'.items[n].id = id
                IN  IF call'.fetch[k].ok
                    THEN listed
                    ELSE /\ ~listed
                         /\ products'[id].current_price =
                               products[id].current_price
                         /\ products'[id].title = products[id].title
                         /\ products'[id].updated_at =
                               products[id].updated_at]_vars

\* C7: an add_product whose fetch or extraction fails returns None and
\* changes nothing: no product row is created or modified and no history
\* row is appended.
C7_FailedAddChangesNothing ==
    [][(call'.op = "add_product" /\ ~call'.fetch[1].ok) =>
          /\ result' = None
          /\ products' = products
          /\ price_history' = price_history
          /\ settings' = settings
          /\ sent' = sent]_vars

\* C7, its case: an add_product whose fetch failed has returned None.
C7_Witness ==
    /\ call.op = "add_product"
    /\ ~call.fetch[1].ok
    /\ result = None

\* No two product rows share (user_id, url).
UniqueOwnerUrl(prods) ==
    \A i, j \in DOMAIN prods :
        (prods[i].user_id = prods[j].user_id /\ prods[i].url = prods[j].url)
            => i = j

C9_StoredUrlIsCanonical ==
    (call.op = "add_product" /\ result.kind = "dict") =>
        /\ result.items[1].url = canonicalize_amazon_url(call.fetch[1].final)
        /\ products[result.items[1].id].url =
              canonicalize_amazon_url(call.fetch[1].final)

\* C10: every successful fetch for a tracked product appends exactly one
\* history row with the fetched price: one row per add_product or check_price
\* whose fetched URL is tracked, one row per fetched product in
\* update_all_prices and check_and_alert; never two, never none.
C10_OneHistoryRowPerFetch ==
    [][/\ (/\ call'.op \in {"add_product", "check_price"}
           /\ call'.fetch[1].ok
           /\ Tracked(products', call'.fetch[1].final)) =>
             /\ Len(Appended) = 1
             /\ Appended[1].price = call'.fetch[1].price
       /\ call'.op \in {"update_all_prices", "check_and_alert"} =>
             Len(Appended) =
                Cardinality({k \in 1..Len(call'.order) : call'.fetch[k].ok})
      ]_vars

\* C11: check_price on a URL whose fetch succeeds and resolves to no tracked
\* product returns a view that holds the fetched title, price and URL, and
\* persists nothing: products and history are as before.
C11_UntrackedCheckIsPreview ==
    [][(/\ call'.op = "check_price"
        /\ call'.fetch[1].ok
        /\ ~Tracked(products, call'.fetch[1].final)) =>
          /\ result'.kind = "preview"
          /\ result'.items[1].title = call'.fetch[1].title
          /\ result'.items[1].current_price = call'.fetch[1].price
          /\ result'.items[1].url = call'.fetch[1].final
          /\ products' = products
          /\ price_history' = price_history]_vars

\* C12: no operation takes a product from inactive to active except an
\* add_product that returns that product: check_price, update_all_prices,
\* check_and_alert, get_price inside them and the history operations leave an
\* inactive product inactive.
C12_OnlyAddReactivates ==
    [][\A i \in DOMAIN products \cap DOMAIN products' :
          (~products[i].is_active /\ products'[i].is_active) =>
              /\ call'.op = "add_product"
              /\ result'.kind = "dict"
              /\ result'.items[1].id = i]_vars

\* C12, its case: check_price has refreshed a product that remove_product had
\* deactivated, and the product is still inactive.
C12_Witness ==
    /\ call.op = "check_price"
    /\ result.kind = "dict"
    /\ products[result.items[1].id].updated_at = clock
    /\ products[result.items[1].id].current_price = call.fetch[1].price
    /\ ~products[result.items[1].id].is_active

\* C13: remove_product deactivates and never deletes: when a row is stored
\* under the URL it returns True, one such row is inactive afterwards and
\* nothing else has changed (every product row and every history row is
\* kept), whatever the stored price; when no row matches it returns False and
\* changes nothing.
C13_RemoveDeactivatesNeverDeletes ==
    [][call'.op = "remove_product" =>
          /\ price_history' = price_history
          /\ IF Tracked(products, call'.url)
             THEN /\ result' = Bool(TRUE)
                  /\ \E i \in DOMAIN products :
                        /\ products[i].url = call'.url
                        /\ products' = [products EXCEPT ![i].is_active = FALSE]
             ELSE /\ result' = Bool(FALSE)
                  /\ products' = products]_vars

\* C13, its case: remove_product returned True for a product whose price is
\* at its threshold and that has history rows; the row and the history rows
\* are there and the product is inactive.
C13_Witness ==
    /\ call.op = "remove_product"
    /\ result = Bool(TRUE)
    /\ \E i \in DOMAIN products :
          /\ products[i].url = call.url
          /\ ~products[i].is_active
          /\ products[i].current_price <= products[i].threshold
          /\ HistoryOf(price_history, i) # <<>>

\* C19: on a crossing that check_and_alert detects, each configured channel
\* is attempted on its own: a mail when an email address is configured, a
\* WhatsApp message when a phone number is configured (whether or not the
\* mail went out), none for a channel without recipient, and the crossing is
\* processed (the product deactivated) in every case.
C19_EachConfiguredChannelAttempted ==
    call.op = "check_and_alert" =>
        \A k \in Fetched :
            DetectedCrossing(k) =>
                LET n == get_notifications(settings, "asc")
                    u == products[call.order[k]].url
                    tried(ch) == \E m \in 1..Len(sent) :
                                    sent[m].channel = ch /\ sent[m].url = u
                IN  /\ (n.email # "") <=> tried("email")
                    /\ (n.phone_number # "") <=> tried("whatsapp")
                    /\ ~products[call.order[k]].is_active

\* The rows a call to the resolver can hit, tier by tier, for the user and
\* the URL of the call.
OwnRows == {i \in DOMAIN products : products[i].user_id = call.user}
ExactRows == {i \in OwnRows : products[i].url = call.url}
CanonRows ==
    IF canonicalize_amazon_url(call.url) = call.url THEN {}
    ELSE {i \in OwnRows : products[i].url = canonicalize_amazon_url(call.url)}
CallAsin ==
    IF _extract_asin(call.url) # "" THEN _extract_asin(call.url)
    ELSE _extract_asin(canonicalize_amazon_url(call.url))
AsinRows ==
    {i \in OwnRows : CallAsin # "" /\ UrlMentions(products[i].url, CallAsin)}
Hit == IF result.kind = "dict" THEN {result.items[1].id} ELSE {}

\* C14: the resolver returns the first hit of three lookups among the user's
\* rows, in this order: the stored URL equal to the given URL; the stored URL
\* equal to canonicalize(url) when that differs from url; the extracted
\* product-id occurring (in any case) in the stored URL.  An exact match wins
\* over an id-substring match, and None is returned only when all three miss
\* (the queries themselves answering).
C14_ResolveTriesThreeLookupsInOrder ==
    (call.op = "_find_product_by_url" /\ ~call.raised) =>
        /\ ExactRows # {} => Hit # {} /\ Hit \subseteq ExactRows
        /\ (ExactRows = {} /\ CanonRows # {}) =>
              Hit # {} /\ Hit \subseteq CanonRows
        /\ (ExactRows = {} /\ CanonRows = {} /\ AsinRows # {}) =>
              Hit # {} /\ Hit \subseteq AsinRows
        /\ (ExactRows = {} /\ CanonRows = {} /\ AsinRows = {}) =>
              result = None
        /\ \A i \in Hit : result.items[1] = View(i, products[i])

\* C14, its case: a canonical URL is resolved to the user's row stored under
\* a decorated URL (slug, lower-case id, tracking query) by the id-substring
\* lookup, the two exact lookups having missed.
C14_Witness ==
    /\ call.op = "_find_product_by_url"
    /\ ~call.raised
    /\ call.url = UCanon
    /\ ExactRows = {}
    /\ CanonRows = {}
    /\ result.kind = "dict"
    /\ result.items[1].url = UDecor

\* C15: canonicalize is idempotent for every URL: canonicalizing what
\* canonicalize returned gives the same URL again, with a product-id found
\* and in the fallback that only strips the query.
C15_CanonicalizeIdempotent ==
    call.op = "canonicalize_amazon_url" =>
        canonicalize_amazon_url(result.items[1]) = result.items[1]

\* The product-ids that stand in the path in a recognized shape.
RecognizedIds(url) ==
    {RxSearch(ASIN_REGEXES[n], Pieces(url.path), url.rooted) :
        n \in 1..Len(ASIN_REGEXES)} \ {""}

\* C16: for a URL whose path holds a product-id in a recognized shape,
\* canonicalize returns <scheme>://<host>/dp/<ID>: the input's scheme and
\* host, the id upper-cased, no query; and the product-id extracted from that
\* output is the same id.
C16_CanonicalFormKeepsSchemeAndHost ==
    (call.op = "canonicalize_amazon_url" /\ RecognizedIds(call.url) # {}) =>
        LET out == result.items[1]
        IN  /\ out.scheme = call.url.scheme
            /\ out.host = call.url.host
            /\ out.query = ""
            /\ \E id \in RecognizedIds(call.url) :
                  /\ out.path = <<"dp", id>>
                  /\ _extract_asin(out) = id

\* C17: deleting a user removes the user, every product of the user, every
\* history row of those products and the user's notification settings, so
\* that the resolver finds none of them afterwards; the rows of the other
\* users are as before.
C17_DeleteUserCascades ==
    [][(call'.op = "delete_user" /\ call'.user \in users) =>
          LET u == call'.user
              gone == {i \in DOMAIN products : products[i].user_id = u}
          IN  /\ result' = Status("200")
              /\ users' = users \ {u}
              /\ DOMAIN products' = DOMAIN products \ gone
              /\ \A i \in DOMAIN products' : products'[i] = products[i]
              /\ price_history' =
                    SelectSeq(price_history, LAMBDA h : h.product_id \notin gone)
              /\ DOMAIN settings' =
                    {j \in DOMAIN settings : settings[j].user_id # u}
              /\ \A j \in DOMAIN settings' : settings'[j] = settings[j]
              /\ \A url \in HistoryUrls, scan \in Scans :
                    _find_product_by_url(products', u, url, scan) = {}]_vars

\* C17, its case: user 1 has been deleted with a product, a history row and
\* settings; product, history row and settings of user 2 are still there.
C17_Witness ==
    /\ call.op = "delete_user"
    /\ call.user = 1
    /\ result = Status("200")
    /\ users = {2}
    /\ DOMAIN products = {2}
    /\ products[2].user_id = 2
    /\ Len(price_history) = 1
    /\ price_history[1].product_id = 2
    /\ DOMAIN settings = {2}

\* The host is one of the allowed Amazon domains or a subdomain of one.
AmazonHost(host) ==
    host \in {"www.amazon.in", "WWW.AMAZON.IN", "www.amazon.com", "amzn.in"}

\* C18: the add-product, check-price and send-notification endpoints call the
\* tracker or the notifier only for URLs whose host is an allowed Amazon
\* domain (or amzn.in); a URL on any other host is answered with status 400
\* before any core operation is called.
C18_CoreOnlyForAmazonHosts ==
    call.op \in {"POST /api/products", "POST /api/products/check",
                 "POST /api/notify"} =>
        /\ result.items # <<>> => AmazonHost(call.url.host)
        /\ ~AmazonHost(call.url.host) =>
              result.kind = "400" /\ result.items = <<>>

\* The products a run of main is about: the user's, or every user's.
RunProducts ==
    {i \in DOMAIN products :
        IF call.mode = "single" THEN products[i].user_id = call.user
        ELSE products[i].user_id \in users}

\* C20: apart from a keyboard interrupt, main leaves its loop only after a
\* cycle at whose end no product of the user (in multi-user mode: of any
\* user) is active.
C20_ExitsOnlyWithNoActiveProduct ==
    (call.op = "returned" /\ result.kind = "exit") =>
        \A i \in RunProducts : ~products[i].is_active

\* C21: history rows are append-only.  In every step the rows that were
\* there keep their price, timestamp and product and their order, new rows
\* come after them; rows go only by the purge of one product's history
\* (remove_product_history, remove_product_history_by_product_id: all rows of
\* that product and no other) or with the products of a deleted user.
\* remove_product and check_and_alert remove none.
C21_HistoryAppendOnly ==
    [][\/ /\ Len(price_history') >= Len(price_history)
          /\ SubSeq(price_history', 1, Len(price_history)) = price_history
       \/ /\ call'.op \in {"remove_product_history",
                            "remove_product_history_by_product_id"}
          /\ \E id \in DOMAIN products :
                price_history' =
                   SelectSeq(price_history, LAMBDA h : h.product_id # id)
       \/ /\ call'.op = "delete_user"
          /\ price_history' =
                SelectSeq(price_history,
                          LAMBDA h : products[h.product_id].user_id
                                        # call'.user)]_vars

\* C21, its case: the history of one product has been purged, and the row of
\* the other product is as it was.
C21_Witness ==
    /\ call.op \in {"remove_product_history",
                    "remove_product_history_by_product_id"}
    /\ result = Bool(TRUE)
    /\ Len(price_history) = 1
    /\ price_history[1] \in {HistoryRow(1, 5500, 0), HistoryRow(2, 5500, 0)}

\* C30: remove_product_history_by_product_id(user, product) deletes history
\* rows only when the product is a row of that user: then every history row
\* of that product goes, every other history row and every product row stay,
\* and True is returned; when the product does not exist or is another
\* user's, False is returned and nothing is deleted.
C30_PurgeByIdOwnProductOnly ==
    [][call'.op = "remove_product_history_by_product_id" =>
          /\ products' = products
          /\ IF /\ call'.product_id \in DOMAIN products
                /\ products[call'.product_id].user_id = call'.user
             THEN /\ result' = Bool(TRUE)
                  /\ price_history' =
                        SelectSeq(price_history,
                                  LAMBDA h : h.product_id # call'.product_id)
             ELSE /\ result' = Bool(FALSE)
                  /\ price_history' = price_history]_vars

\* C30, its case: a user has purged the history of their own product; the
\* product row and the history row of the other user's product are there.
C30_Witness ==
    /\ call.op = "remove_product_history_by_product_id"
    /\ result = Bool(TRUE)
    /\ call.product_id \in DOMAIN products
    /\ products[call.product_id].user_id = call.user
    /\ Len(price_history) = 1
    /\ price_history[1].product_id # call.product_id
    /\ products[price_history[1].product_id].user_id # call.user

\* C29: a fetch that extracts a title and the price 0 is a successful
\* observation like any other: add_product returns the product with price 0
\* and a history row with price 0 is recorded.
C29_PriceZeroIsAnObservation ==
    [][(/\ call'.op = "add_product"
        /\ call'.fetch[1].ok
        /\ call'.fetch[1].price = 0) =>
          /\ result'.kind = "dict"
          /\ result'.items[1].current_price = 0
          /\ Appended # <<>>
          /\ \A n \in 1..Len(Appended) : Appended[n].price = 0]_vars

\* The rows of the users other than u: their products and the history rows of
\* their products.
RowsOfOthers(prods, hist, u) ==
    [products |-> [i \in {j \in DOMAIN prods : prods[j].user_id # u} |-> prods[i]],
     history  |-> SelectSeq(hist, LAMBDA h : h.product_id \in DOMAIN prods
                                             => prods[h.product_id].user_id # u)]

\* C28: a tracker operation invoked for one owner leaves the products, the
\* active flags and the history of every other owner as they were, also when
\* another owner tracks the same URL.  The methods are not told the owner, so
\* the statement is that of each call there is an owner it can have been
\* made for: one whose rows are the only ones it changed.
C28_OtherOwnersUntouched ==
    [][call'.op \in {"add_product", "check_price", "update_all_prices",
                     "check_and_alert", "remove_product"} =>
          \E u \in UserIds :
              RowsOfOthers(products', price_history', u)
                 = RowsOfOthers(products, price_history, u)]_vars

\* C25: the product-id the resolver extracts from a URL is the one
\* canonicalize uses for it, for every URL: _extract_asin(u) is non-empty
\* exactly when canonicalize(u) ends in /dp/<that id>.
C25_ExtractAgreesWithCanonicalize ==
    call.op = "canonicalize_amazon_url" =>
        LET id  == _extract_asin(call.url)
            out == result.items[1]
        IN  id # "" <=> /\ Len(out.path) = 2
                        /\ out.path[1] = "dp"
                        /\ out.path[2] = id

\* C27: the resolver is read-only and owner-scoped: it creates, updates and
\* deletes no row, the product it returns is a row of the user it was asked
\* for (in the id-substring lookup too), and when a query raises it returns
\* None.
C27_ResolveReadOnlyOwnerScoped ==
    [][call'.op = "_find_product_by_url" =>
          /\ <<users, products, price_history, settings>>'
                = <<users, products, price_history, settings>>
          /\ \/ result' = None
             \/ /\ result'.kind = "dict"
                /\ products[result'.items[1].id].user_id = call'.user
          /\ call'.raised => result' = None]_vars

\* C27, its case: the resolver has returned None for a URL whose product-id
\* stands in the stored URL of another user's row and in none of the user's.
C27_Witness ==
    /\ call.op = "_find_product_by_url"
    /\ ~call.raised
    /\ result = None
    /\ CallAsin # ""
    /\ \E i \in DOMAIN products :
          /\ products[i].user_id # call.user
          /\ UrlMentions(products[i].url, CallAsin)

\* C22: after any sequence of update_notifications calls each user has at
\* most one settings row; a field passed as None leaves every stored value
\* of that field as it was; and get_notifications returns a value for both
\* fields, "" for an absent row or an absent field, never an error.
C22_OneSettingsRowNoneKeeps ==
    [][/\ call'.op = "update_notifications" =>
           /\ \A i, j \in DOMAIN settings' :
                 settings'[i].user_id = settings'[j].user_id => i = j
           /\ DOMAIN settings \subseteq DOMAIN settings'
           /\ \A i \in DOMAIN settings :
                 /\ call'.email = Null =>
                       settings'[i].email = settings[i].email
                 /\ call'.phone_number = Null =>
                       settings'[i].phone_number = settings[i].phone_number
       /\ call'.op = "get_notifications" =>
           /\ result'.kind = "dict"
           /\ result'.items[1].email # Null
           /\ result'.items[1].phone_number # Null
           /\ settings = <<>> =>
                 result'.items[1] = [email |-> "", phone_number |-> ""]
           /\ \A i \in DOMAIN settings :
                 (settings[i].email = Null /\ DOMAIN settings = {i})
                     => result'.items[1].email = ""]_vars

\* C22, its case: update_notifications was called with the e-mail None and a
\* phone number on a table with one row per user: the row took the phone
\* number and kept its e-mail, and there is still one row per user.
C22_Witness ==
    /\ call.op = "update_notifications"
    /\ call.email = Null
    /\ call.phone_number = "+919876543210"
    /\ Cardinality(DOMAIN settings) = 2
    /\ \E i \in DOMAIN settings :
          /\ settings[i].phone_number = "+919876543210"
          /\ settings[i].email = "user@example.com"
          /\ settings[i].updated_at = clock

\* The price text the four strategies give in their order: a whole-price
\* span; an offscreen-price span; in a price container, its whole price,
\* else its offscreen price; a price-color span's whole price inside it, else
\* its own text.  {} when none of the four matches.
FirstStrategyText(body) ==
    LET one == find(body, "a-price-whole")
        two == find(body, "a-offscreen")
        box == find(body, "a-price")
        inbox == IF box = {} THEN <<>> ELSE (CHOOSE x \in box : TRUE).kids
        three == IF find(inbox, "a-price-whole") # {}
                 THEN find(inbox, "a-price-whole")
                 ELSE find(inbox, "a-offscreen")
        color == find(body, "price")
        four == IF color = {} THEN {}
                ELSE IF find((CHOOSE x \in color : TRUE).kids,
                             "a-price-whole") # {}
                THEN find((CHOOSE x \in color : TRUE).kids, "a-price-whole")
                ELSE color
        first == IF one # {} THEN one ELSE IF two # {} THEN two
                 ELSE IF three # {} THEN three ELSE four
    IN  IF first = {} THEN {} ELSE {get_text(first)}

\* C24: the price is extracted by the first of the four strategies that
\* matches, and the extraction fails with "price not found" only when none
\* of the four matches: a page whose price container holds neither a whole
\* nor an offscreen price but that has a price-color span yields a price.
C24_FirstMatchingStrategyWins ==
    (call.op = "get_price" /\ call.page.title # "") =>
        LET text == FirstStrategyText(call.page.body)
        IN  /\ text = {} <=> result = Failed("Price not found")
            /\ \A t \in text : \A price \in ParsePrice(t) :
                  result = Extracted(call.page.title, price)

\* The digits of a text before its first point and after it.
DigitsOf(t) == SelectSeq(t, IsDigit)
BeforePoint(t) ==
    LET points == {i \in 1..Len(t) : t[i] = "."}
    IN  IF points = {} THEN t
        ELSE SubSeq(t, 1, (CHOOSE i \in points : \A j \in points : i <= j) - 1)
AfterPoint(t) == SubSeq(t, Len(BeforePoint(t)) + 2, Len(t))

\* A price as it is written: digits with thousands separators, at most one
\* decimal point after them, a currency sign and blanks around it.
WrittenPrice(t) ==
    /\ \A i \in 1..Len(t) :
          IsDigit(t[i]) \/ t[i] \in {",", ".", " ", Rupee, "$", Euro, Pound}
    /\ Cardinality({i \in 1..Len(t) : t[i] = "."}) <= 1
    /\ DigitsOf(BeforePoint(t)) # <<>>
    /\ \A i \in 1..Len(AfterPoint(t)) : IsDigit(AfterPoint(t)[i])

\* C26: the numeric normalization keeps the decimal point and drops only the
\* currency signs and the thousands separators: the price of a written
\* price is the number its digits write, those after the point as decimals
\* ("₹1,234.50" gives 1234.50, "$99" gives 99, "2,999" gives 2999.0), and a
\* text without a digit fails as unparseable instead of giving a price.
C26_NormalizationKeepsDecimalPoint ==
    (/\ call.op = "get_price"
     /\ call.page.title # ""
     /\ Len(call.page.body) = 1
     /\ call.page.body[1].cls = "a-price-whole") =>
        LET t == call.page.body[1].text
        IN  /\ WrittenPrice(t) =>
                 result = Extracted(call.page.title,
                             Decimal(Number(DigitsOf(t)),
                                     Len(DigitsOf(AfterPoint(t)))))
            /\ DigitsOf(t) = <<>> => result = Failed("Could not extract price")
            /\ t = <<Rupee, "1", ",", "2", "3", "4", ".", "5", "0">> =>
                 result.items[1].price = [n |-> 12345, k |-> 1]
            /\ t = <<"$", "9", "9">> =>
                 result.items[1].price = [n |-> 99, k |-> 0]
            /\ t = <<"2", ",", "9", "9", "9">> =>
                 result.items[1].price = [n |-> 2999, k |-> 0]

\* C26, its case: the page's price text is "₹1,234.50" and get_price has
\* returned 1234.5.
C26_Witness ==
    /\ call.op = "get_price"
    /\ Len(call.page.body) = 1
    /\ call.page.body[1].text
          = <<Rupee, "1", ",", "2", "3", "4", ".", "5", "0">>
    /\ result = Extracted("Test Product", [n |-> 12345, k |-> 1])

====
